---- MODULE Spec2Model ----
(***************************************************************************)
(* Model of the ORI API (app/routers/*.py over app/models.py): three       *)
(* tables (vergaderingen, agendapunten, informatieobjecten), the join      *)
(* table between agendapunten and informatieobjecten, and one action per   *)
(* HTTP handler.  Every request is handled in its own session; in Spec,    *)
(* SpecOuders and SpecOrg a handler is one atomic step, in SpecInterleaved *)
(* the handlers that commit run statement by statement, interleaved.       *)
(*                                                                         *)
(* Strings that the code takes apart are sequences of path segments: the   *)
(* Python string s is the sequence s.split("/"), so "/" in s is Len(s) > 1 *)
(* and an f-string "{a}/{b}" is a \o b.  A segment is a record [k, n]:     *)
(* Word(w) a literal text, Uuid(n) the n-th value drawn from uuid.uuid4(), *)
(* Num(n) the decimal numeral of n.                                        *)
(*                                                                         *)
(* The scalar columns that every handler copies verbatim are represented   *)
(* by one required column (naam, agendapuntnaam, titel) and one optional   *)
(* column (locatie, omschrijving, auteur) per table.                       *)
(***************************************************************************)
EXTENDS Integers, Sequences, FiniteSets, TLC

(* ---------------------------- bounds ----------------------------------- *)
MaxUuid == 3        \* number of uuid4() draws, i.e. of successful creates
MaxV == 2           \* rows in vergaderingen
MaxA == 2           \* rows in agendapunten
MaxI == 2           \* rows in informatieobjecten
MaxSessions == 2    \* requests in flight at the same time
MaxNum == 1         \* largest numeral a client writes in a reference id

(* ---------------------------- strings ---------------------------------- *)
Word(w) == [k |-> w, n |-> 0]
Uuid(n) == [k |-> "uuid", n |-> n]
Num(n)  == [k |-> "num", n |-> n]

NullStr == <<>>                 \* None where a str is expected
EmptyStr == <<Word("")>>        \* ""
NullId == -1                    \* None where an int is expected

API_SERVER == <<Word("http:"), Word(""), Word("localhost:8000")>>

\* bool(s) of an Optional[str]
Truthy(s) == s # NullStr /\ s # EmptyStr

\* the reference used as it is given, a URL not reduced to its last segment
LastSegment_whole(s) == s

\* s.split("/")[-1] when "/" in s, else s
LastSegment(s) == IF Len(s) > 1 THEN <<s[Len(s)]>> ELSE s

\* int(s) raises ValueError unless s is a numeral
IsNumeric(s) == Len(s) = 1 /\ s[1].k = "num"
IntOf(s) == s[1].n

\* str(n)
StrOf(n) == <<Num(n)>>

\* f"{API_SERVER}/<collection>/{pid_uuid}"
Uri(collection, pid_uuid) == API_SERVER \o <<Word(collection)>> \o pid_uuid

VARIABLES vergaderingen, agendapunten, informatieobjecten, links, uuidCtr, req, resp,
          sessions

vars == <<vergaderingen, agendapunten, informatieobjecten, links, uuidCtr, req, resp,
          sessions>>
store == <<vergaderingen, agendapunten, informatieobjecten, links>>

(* ---------------------------- storage ---------------------------------- *)
Ids(rows) == {r.id : r \in rows}

\* INTEGER PRIMARY KEY of SQLite without AUTOINCREMENT: largest rowid + 1
NextId(rows) ==
    IF rows = {} THEN 1
    ELSE (CHOOSE m \in Ids(rows) : \A j \in Ids(rows) : j <= m) + 1

RECURSIVE OrderById(_)
OrderById(rows) ==
    IF rows = {} THEN <<>>
    ELSE LET m == CHOOSE r \in rows : \A q \in rows : r.id <= q.id
         IN <<m>> \o OrderById(rows \ {m})

\* select(T).where(T.pid_uuid == id)
WherePidUuid(rows, id) == {r \in rows : r.pid_uuid = id}

\* session.exec(statement).first(): None when rows is empty
First(rows) == CHOOSE r \in rows : \A q \in rows : r.id <= q.id

\* VergaderingDB.agendapunten without its join condition: every agenda item
VergaderingDB_agendapunten_unfiltered(v, aps) ==
    OrderById(aps)

\* VergaderingDB.agendapunten: the rows whose vergadering_id is v.id
VergaderingDB_agendapunten(v, aps) ==
    OrderById({a \in aps : a.vergadering_id = v.id})

\* AgendapuntDB.informatieobjecten, through the join table
AgendapuntDB_informatieobjecten(a, ios, lks) ==
    OrderById({i \in ios : <<a.id, i.id>> \in lks})

\* InformatieObjectDB.agendapunten, through the join table
InformatieObjectDB_agendapunten(i, aps, lks) ==
    OrderById({a \in aps : <<a.id, i.id>> \in lks})

(* ---------------------------- responses -------------------------------- *)
HTTP_200_OK == 200
HTTP_201_CREATED == 201
HTTP_404_NOT_FOUND == 404
HTTP_422_UNPROCESSABLE == 422
\* an exception no handler catches: the framework answers 500
HTTP_500_INTERNAL_SERVER_ERROR == 500

NotFound == [status |-> HTTP_404_NOT_FOUND,
             body |-> [detail |-> "De gevraagde resource is niet gevonden."]]
Unprocessable == [status |-> HTTP_422_UNPROCESSABLE, body |-> [detail |-> "validation"]]
InternalServerError ==
    [status |-> HTTP_500_INTERNAL_SERVER_ERROR, body |-> [detail |-> "Internal Server Error"]]
Deleted == [status |-> HTTP_200_OK, body |-> [message |-> "Verwijderactie geslaagd"]]

Request(op, typ, id, valid, body) ==
    [op |-> op, typ |-> typ, id |-> id, valid |-> valid, body |-> body]

NoBody == [none |-> TRUE]

\* the dispatch without its Provincie branch
OrgType_without_provincie(organisatie) ==
    IF organisatie.variant = "gemeente" THEN "gemeente" ELSE "waterschap"

\* isinstance dispatch on the organisatie union: the stored discriminator
OrgType(organisatie) ==
    IF organisatie.variant = "gemeente" THEN "gemeente"
    ELSE IF organisatie.variant = "provincie" THEN "provincie"
    ELSE "waterschap"

\* Gemeente(...) / Provincie(...) / Waterschap(...) rebuilt from the columns
OrgOfRow(r) ==
    IF r.organisatie_type = "gemeente"
      THEN [variant |-> "gemeente", code |-> r.organisatie_code, naam |-> r.organisatie_naam]
    ELSE IF r.organisatie_type = "provincie"
      THEN [variant |-> "provincie", code |-> r.organisatie_code, naam |-> r.organisatie_naam]
    ELSE [variant |-> "waterschap", code |-> r.organisatie_code, naam |-> r.organisatie_naam]

\* VerwijzingNaarResource(id=str(fk), url=f"/<collection>/{fk}")
RefOfId(collection, fk) ==
    [id |-> StrOf(fk), url |-> <<Word(""), Word(collection), Num(fk)>>]

NoRef == [id |-> NullStr, url |-> NullStr]

(* ---------------------------- vergaderingen ---------------------------- *)
\* routers/vergaderingen.py db_to_schema
vergaderingen_db_to_schema(v, aps) ==
    [pid |-> Uri("vergaderingen", v.pid_uuid),
     pid_uuid |-> v.pid_uuid,
     organisatie |-> OrgOfRow(v),
     naam |-> v.naam,
     hoofdvergadering |->
        IF v.hoofdvergadering_id # NullId /\ v.hoofdvergadering_id # 0
          THEN RefOfId("vergaderingen", v.hoofdvergadering_id)
          ELSE NoRef,
     georganiseerddoorgremium |->
        IF Truthy(v.gremium_identificatie) /\ Truthy(v.gremium_naam)
          THEN <<v.gremium_identificatie, v.gremium_naam>>
          ELSE <<>>,
     locatie |-> v.locatie,
     agendapunten |->
        LET rel == VergaderingDB_agendapunten(v, aps)
        IN [k \in 1..Len(rel) |-> Uri("agendapunten", rel[k].pid_uuid)]]

\* the try/except around int(ref.id) in post_vergadering and post_agendapunt
ParentIdOnCreate(ref) ==
    IF ref # NullStr /\ IsNumeric(ref) THEN IntOf(ref) ELSE NullId

\* the same in the put handlers: a failed int() leaves the column as it was
ParentIdOnUpdate(ref, old) ==
    IF ref = NullStr THEN NullId
    ELSE IF IsNumeric(ref) THEN IntOf(ref) ELSE old

GremiumIdentificatie(g) == IF g # <<>> THEN g[1] ELSE NullStr
GremiumNaam(g) == IF g # <<>> THEN g[2] ELSE NullStr

post_vergadering(p, valid) ==
    /\ UNCHANGED sessions
    /\ req' = Request("post", "vergaderingen", NullStr, valid, p)
    /\ IF ~valid
       THEN /\ resp' = Unprocessable
            /\ UNCHANGED <<vergaderingen, agendapunten, informatieobjecten, links, uuidCtr>>
       ELSE /\ uuidCtr < MaxUuid
            /\ Cardinality(vergaderingen) < MaxV
            /\ LET generated_uuid == <<Uuid(uuidCtr + 1)>>
                   db_vergadering ==
                     [id |-> NextId(vergaderingen),
                      pid |-> Uri("vergaderingen", generated_uuid),
                      pid_uuid |-> generated_uuid,
                      organisatie_type |-> OrgType(p.organisatie),
                      organisatie_code |-> p.organisatie.code,
                      organisatie_naam |-> p.organisatie.naam,
                      naam |-> p.naam,
                      hoofdvergadering_id |-> ParentIdOnCreate(p.hoofdvergadering),
                      gremium_identificatie |-> GremiumIdentificatie(p.georganiseerddoorgremium),
                      gremium_naam |-> GremiumNaam(p.georganiseerddoorgremium),
                      locatie |-> p.locatie]
               IN /\ vergaderingen' = vergaderingen \cup {db_vergadering}
                  /\ uuidCtr' = uuidCtr + 1
                  /\ resp' = [status |-> HTTP_201_CREATED,
                              body |-> vergaderingen_db_to_schema(db_vergadering, agendapunten)]
            /\ UNCHANGED <<agendapunten, informatieobjecten, links>>

\* get_vergadering selecting on the pid column, the full URI, as the list
\* filter of get_agendapunten does
get_vergadering_response_by_pid(id) ==
    LET found == {r \in vergaderingen : r.pid = id}
    IN IF found = {} THEN NotFound
       ELSE [status |-> HTTP_200_OK,
             body |-> vergaderingen_db_to_schema(First(found), agendapunten)]

\* what get_vergadering returns in the current state
get_vergadering_response(id) ==
    LET found == WherePidUuid(vergaderingen, id)
    IN IF found = {} THEN NotFound
       ELSE [status |-> HTTP_200_OK,
             body |-> vergaderingen_db_to_schema(First(found), agendapunten)]

get_vergadering(id) ==
    /\ UNCHANGED sessions
    /\ req' = Request("get", "vergaderingen", id, TRUE, NoBody)
    /\ resp' = get_vergadering_response(id)
    /\ UNCHANGED <<vergaderingen, agendapunten, informatieobjecten, links, uuidCtr>>

\* put_vergadering, the assignments to the loaded row db_vergadering
put_vergadering_fields(old, p) ==
    [old EXCEPT
       !.organisatie_type = OrgType(p.organisatie),
       !.organisatie_code = p.organisatie.code,
       !.organisatie_naam = p.organisatie.naam,
       !.naam = p.naam,
       !.pid_uuid = p.pid_uuid,
       !.hoofdvergadering_id =
           ParentIdOnUpdate(p.hoofdvergadering, old.hoofdvergadering_id),
       !.gremium_identificatie =
           GremiumIdentificatie(p.georganiseerddoorgremium),
       !.gremium_naam = GremiumNaam(p.georganiseerddoorgremium),
       !.locatie = p.locatie]

put_vergadering(id, p, valid) ==
    /\ UNCHANGED sessions
    /\ req' = Request("put", "vergaderingen", id, valid, p)
    /\ LET found == WherePidUuid(vergaderingen, id)
       IN IF ~valid
          THEN /\ resp' = Unprocessable
               /\ UNCHANGED vergaderingen
          ELSE IF found = {}
          THEN /\ resp' = NotFound
               /\ UNCHANGED vergaderingen
          ELSE LET old == First(found)
                   db_vergadering == put_vergadering_fields(old, p)
               IN /\ vergaderingen' = (vergaderingen \ {old}) \cup {db_vergadering}
                  /\ resp' = [status |-> HTTP_201_CREATED,
                              body |-> vergaderingen_db_to_schema(db_vergadering, agendapunten)]
    /\ UNCHANGED <<agendapunten, informatieobjecten, links, uuidCtr>>

\* a relationship declared with cascade="all, delete": the children go
\* with their parent
Nullify_cascade(rows, column, id) == {r \in rows : r[column] # id}

\* session.delete() of a row whose one-to-many relationships declare no
\* cascade: the children's foreign key is set to NULL in the same flush
Nullify(rows, column, id) ==
    {IF r[column] = id THEN [r EXCEPT ![column] = NullId] ELSE r : r \in rows}

\* session.delete() of a row with a many-to-many relationship: the rows of
\* the join table that name it are deleted in the same flush
Unlink(lks, side, id) == {l \in lks : l[side] # id}

del_vergadering(id) ==
    /\ UNCHANGED sessions
    /\ req' = Request("delete", "vergaderingen", id, TRUE, NoBody)
    /\ LET found == WherePidUuid(vergaderingen, id)
       IN IF found = {}
          THEN /\ resp' = NotFound
               /\ UNCHANGED <<vergaderingen, agendapunten>>
          ELSE LET vergadering == First(found)
               IN /\ vergaderingen' =
                       Nullify(vergaderingen \ {vergadering}, "hoofdvergadering_id", vergadering.id)
                  /\ agendapunten' = Nullify(agendapunten, "vergadering_id", vergadering.id)
                  /\ resp' = Deleted
    /\ UNCHANGED <<informatieobjecten, links, uuidCtr>>

(* ---------------------------- agendapunten ----------------------------- *)
\* routers/agendapunten.py db_to_schema
agendapunten_db_to_schema(a, ios, lks) ==
    [pid |-> Uri("agendapunten", a.pid_uuid),
     pid_uuid |-> a.pid_uuid,
     organisatie |-> OrgOfRow(a),
     agendapuntnaam |-> a.agendapuntnaam,
     vergadering |->
        IF a.vergadering_id # NullId /\ a.vergadering_id # 0
          THEN RefOfId("vergaderingen", a.vergadering_id)
          ELSE [id |-> EmptyStr, url |-> NullStr],
     hoofdagendapunt |->
        IF a.hoofdagendapunt_id # NullId /\ a.hoofdagendapunt_id # 0
          THEN RefOfId("agendapunten", a.hoofdagendapunt_id)
          ELSE NoRef,
     omschrijving |-> a.omschrijving,
     informatieobjecten |->
        LET rel == AgendapuntDB_informatieobjecten(a, ios, lks)
        IN [k \in 1..Len(rel) |-> Uri("informatieobjecten", rel[k].pid_uuid)]]

\* post_agendapunt: the vergadering reference, a bare UUID or a URL, looked
\* up on vergaderingen.pid_uuid; "or 0" when no row matches
ResolveVergadering(ref) ==
    IF Truthy(ref)
      THEN LET found == WherePidUuid(vergaderingen, LastSegment(ref))
           IN IF found = {} THEN 0 ELSE First(found).id
      ELSE NullId

\* put_agendapunt: the vergadering reference is read as a number
VergaderingIdOnUpdate(ref, old) ==
    IF Truthy(ref)
      THEN IF IsNumeric(ref) THEN IntOf(ref) ELSE old
      ELSE NullId

post_agendapunt(p, valid) ==
    /\ UNCHANGED sessions
    /\ req' = Request("post", "agendapunten", NullStr, valid, p)
    /\ IF ~valid
       THEN /\ resp' = Unprocessable
            /\ UNCHANGED <<vergaderingen, agendapunten, informatieobjecten, links, uuidCtr>>
       ELSE /\ uuidCtr < MaxUuid
            /\ Cardinality(agendapunten) < MaxA
            /\ LET generated_uuid == <<Uuid(uuidCtr + 1)>>
                   db_agendapunt ==
                     [id |-> NextId(agendapunten),
                      pid |-> Uri("agendapunten", generated_uuid),
                      pid_uuid |-> generated_uuid,
                      organisatie_type |-> OrgType(p.organisatie),
                      organisatie_code |-> p.organisatie.code,
                      organisatie_naam |-> p.organisatie.naam,
                      agendapuntnaam |-> p.agendapuntnaam,
                      vergadering_id |-> ResolveVergadering(p.vergadering),
                      hoofdagendapunt_id |-> ParentIdOnCreate(p.hoofdagendapunt),
                      omschrijving |-> p.omschrijving]
               IN /\ agendapunten' = agendapunten \cup {db_agendapunt}
                  /\ uuidCtr' = uuidCtr + 1
                  /\ resp' = [status |-> HTTP_201_CREATED,
                              body |-> agendapunten_db_to_schema(
                                          db_agendapunt, informatieobjecten, links)]
            /\ UNCHANGED <<vergaderingen, informatieobjecten, links>>

\* what get_agendapunt returns in the current state
get_agendapunt_response(id) ==
    LET found == WherePidUuid(agendapunten, id)
    IN IF found = {} THEN NotFound
       ELSE [status |-> HTTP_200_OK,
             body |-> agendapunten_db_to_schema(First(found), informatieobjecten, links)]

get_agendapunt(id) ==
    /\ UNCHANGED sessions
    /\ req' = Request("get", "agendapunten", id, TRUE, NoBody)
    /\ resp' = get_agendapunt_response(id)
    /\ UNCHANGED <<vergaderingen, agendapunten, informatieobjecten, links, uuidCtr>>

put_agendapunt(id, p, valid) ==
    /\ UNCHANGED sessions
    /\ req' = Request("put", "agendapunten", id, valid, p)
    /\ LET found == WherePidUuid(agendapunten, id)
       IN IF ~valid
          THEN /\ resp' = Unprocessable
               /\ UNCHANGED agendapunten
          ELSE IF found = {}
          THEN /\ resp' = NotFound
               /\ UNCHANGED agendapunten
          ELSE LET old == First(found)
                   db_agendapunt ==
                     [old EXCEPT
                        !.organisatie_type = OrgType(p.organisatie),
                        !.organisatie_code = p.organisatie.code,
                        !.organisatie_naam = p.organisatie.naam,
                        !.agendapuntnaam = p.agendapuntnaam,
                        !.pid_uuid = p.pid_uuid,
                        !.vergadering_id =
                            VergaderingIdOnUpdate(p.vergadering, old.vergadering_id),
                        !.hoofdagendapunt_id =
                            ParentIdOnUpdate(p.hoofdagendapunt, old.hoofdagendapunt_id),
                        !.omschrijving = p.omschrijving]
               IN /\ agendapunten' = (agendapunten \ {old}) \cup {db_agendapunt}
                  /\ resp' = [status |-> HTTP_201_CREATED,
                              body |-> agendapunten_db_to_schema(
                                          db_agendapunt, informatieobjecten, links)]
    /\ UNCHANGED <<vergaderingen, informatieobjecten, links, uuidCtr>>

\* del_agendapunt without the check that the row exists
del_agendapunt_unguarded(id) ==
    /\ UNCHANGED sessions
    /\ req' = Request("delete", "agendapunten", id, TRUE, NoBody)
    /\ LET found == WherePidUuid(agendapunten, id)
       IN /\ agendapunten' =
               IF found = {} THEN agendapunten
               ELSE Nullify(agendapunten \ {First(found)}, "hoofdagendapunt_id", First(found).id)
          /\ links' = IF found = {} THEN links ELSE Unlink(links, 1, First(found).id)
          /\ resp' = Deleted
    /\ UNCHANGED <<vergaderingen, informatieobjecten, uuidCtr>>

del_agendapunt(id) ==
    /\ UNCHANGED sessions
    /\ req' = Request("delete", "agendapunten", id, TRUE, NoBody)
    /\ LET found == WherePidUuid(agendapunten, id)
       IN IF found = {}
          THEN /\ resp' = NotFound
               /\ UNCHANGED <<agendapunten, links>>
          ELSE LET agendapunt == First(found)
               IN /\ agendapunten' =
                       Nullify(agendapunten \ {agendapunt}, "hoofdagendapunt_id", agendapunt.id)
                  /\ links' = Unlink(links, 1, agendapunt.id)
                  /\ resp' = Deleted
    /\ UNCHANGED <<vergaderingen, informatieobjecten, uuidCtr>>

(* ---------------------------- informatieobjecten ----------------------- *)
\* db_to_schema building the agenda item references from the internal id
informatieobjecten_db_to_schema_by_id(i, aps, lks) ==
    [pid |-> Uri("informatieobjecten", i.pid_uuid),
     pid_uuid |-> i.pid_uuid,
     organisatie |-> OrgOfRow(i),
     titel |-> i.titel,
     auteur |-> i.auteur,
     vergaderingen |-> <<>>,
     agendapunten |->
        LET rel == InformatieObjectDB_agendapunten(i, aps, lks)
        IN [k \in 1..Len(rel) |->
              [id |-> Uri("agendapunten", StrOf(rel[k].id)),
               url |-> Uri("agendapunten", StrOf(rel[k].id))]]]

\* routers/informatieobjecten.py db_to_schema; a collection that is None is
\* rendered as the empty sequence
informatieobjecten_db_to_schema(i, aps, lks) ==
    [pid |-> Uri("informatieobjecten", i.pid_uuid),
     pid_uuid |-> i.pid_uuid,
     organisatie |-> OrgOfRow(i),
     titel |-> i.titel,
     auteur |-> i.auteur,
     vergaderingen |-> <<>>,
     agendapunten |->
        LET rel == InformatieObjectDB_agendapunten(i, aps, lks)
        IN [k \in 1..Len(rel) |->
              [id |-> Uri("agendapunten", rel[k].pid_uuid),
               url |-> Uri("agendapunten", rel[k].pid_uuid)]]]

\* post_informatieobject, the loop over informatieobject.agendapunten: the
\* join rows added for the references that resolve
RECURSIVE LinkAgendapunten(_, _)
LinkAgendapunten(refs, io_id) ==
    IF refs = <<>> THEN {}
    ELSE LET found == WherePidUuid(agendapunten, LastSegment(Head(refs)))
         IN (IF found = {} THEN {} ELSE {<<First(found).id, io_id>>})
              \cup LinkAgendapunten(Tail(refs), io_id)

\* the agenda items the loop appends to db_obj.agendapunten, as internal
\* ids in the order of the references; one append per resolving reference
RECURSIVE AppendedAgendapunten(_)
AppendedAgendapunten(refs) ==
    IF refs = <<>> THEN <<>>
    ELSE LET found == WherePidUuid(agendapunten, LastSegment(Head(refs)))
         IN (IF found = {} THEN <<>> ELSE <<First(found).id>>)
              \o AppendedAgendapunten(Tail(refs))

\* the second commit inserts one join row per appended item; a pair that
\* is inserted twice violates the key of the join table
FlushFails(appended) ==
    \E j, k \in 1..Len(appended) : j # k /\ appended[j] = appended[k]

\* post_informatieobject, the row InformatieObjectDB(...) that is added
post_informatieobject_db_obj(p) ==
    LET generated_uuid == <<Uuid(uuidCtr + 1)>>
    IN [id |-> NextId(informatieobjecten),
        pid |-> Uri("informatieobjecten", generated_uuid),
        pid_uuid |-> generated_uuid,
        organisatie_type |-> OrgType(p.organisatie),
        organisatie_code |-> p.organisatie.code,
        organisatie_naam |-> p.organisatie.naam,
        titel |-> p.titel,
        auteur |-> p.auteur]

post_informatieobject(p, valid) ==
    /\ UNCHANGED sessions
    /\ req' = Request("post", "informatieobjecten", NullStr, valid, p)
    /\ IF ~valid
       THEN /\ resp' = Unprocessable
            /\ UNCHANGED <<vergaderingen, agendapunten, informatieobjecten, links, uuidCtr>>
       ELSE /\ uuidCtr < MaxUuid
            /\ Cardinality(informatieobjecten) < MaxI
            /\ LET db_obj == post_informatieobject_db_obj(p)
               IN /\ informatieobjecten' = informatieobjecten \cup {db_obj}
                  /\ uuidCtr' = uuidCtr + 1
                  /\ IF FlushFails(AppendedAgendapunten(p.agendapunten))
                     THEN /\ links' = links
                          /\ resp' = InternalServerError
                     ELSE /\ links' = links \cup LinkAgendapunten(p.agendapunten, db_obj.id)
                          /\ resp' = [status |-> HTTP_201_CREATED,
                                      body |-> informatieobjecten_db_to_schema(
                                                  db_obj, agendapunten, links')]
            /\ UNCHANGED <<vergaderingen, agendapunten>>

\* what get_informatieobject returns in the current state
get_informatieobject_response(id) ==
    LET found == WherePidUuid(informatieobjecten, id)
    IN IF found = {} THEN NotFound
       ELSE [status |-> HTTP_200_OK,
             body |-> informatieobjecten_db_to_schema(First(found), agendapunten, links)]

get_informatieobject(id) ==
    /\ UNCHANGED sessions
    /\ req' = Request("get", "informatieobjecten", id, TRUE, NoBody)
    /\ resp' = get_informatieobject_response(id)
    /\ UNCHANGED <<vergaderingen, agendapunten, informatieobjecten, links, uuidCtr>>

put_informatieobject(id, p, valid) ==
    /\ UNCHANGED sessions
    /\ req' = Request("put", "informatieobjecten", id, valid, p)
    /\ LET found == WherePidUuid(informatieobjecten, id)
       IN IF ~valid
          THEN /\ resp' = Unprocessable
               /\ UNCHANGED informatieobjecten
          ELSE IF found = {}
          THEN /\ resp' = NotFound
               /\ UNCHANGED informatieobjecten
          ELSE LET old == First(found)
                   db_obj ==
                     [old EXCEPT
                        !.organisatie_type = OrgType(p.organisatie),
                        !.organisatie_code = p.organisatie.code,
                        !.organisatie_naam = p.organisatie.naam,
                        !.titel = p.titel,
                        !.pid_uuid = p.pid_uuid,
                        !.auteur = p.auteur]
               IN /\ informatieobjecten' = (informatieobjecten \ {old}) \cup {db_obj}
                  /\ resp' = [status |-> HTTP_201_CREATED,
                              body |-> informatieobjecten_db_to_schema(
                                          db_obj, agendapunten, links)]
    /\ UNCHANGED <<vergaderingen, agendapunten, links, uuidCtr>>

del_informatieobject(id, valid) ==
    /\ UNCHANGED sessions
    /\ req' = Request("delete", "informatieobjecten", id, valid, NoBody)
    /\ LET found == WherePidUuid(informatieobjecten, id)
       IN IF ~valid
          THEN /\ resp' = Unprocessable
               /\ UNCHANGED <<informatieobjecten, links>>
          ELSE IF found = {}
          THEN /\ resp' = NotFound
               /\ UNCHANGED <<informatieobjecten, links>>
          ELSE /\ informatieobjecten' = informatieobjecten \ {First(found)}
               /\ links' = Unlink(links, 2, First(found).id)
               /\ resp' = Deleted
    /\ UNCHANGED <<vergaderingen, agendapunten, uuidCtr>>

(* ---------------------------- lists ------------------------------------ *)
\* session.exec(select(T)).all() with the rows newest first
All_newest_first(rows) ==
    LET asc == OrderById(rows)
    IN [k \in 1..Len(asc) |-> asc[Len(asc) + 1 - k]]

\* session.exec(select(T)).all(): a scan of the table, in rowid order
All(rows) == OrderById(rows)

\* a list response that links to a further page once there are results
Paginated_with_next(results) ==
    [status |-> HTTP_200_OK,
     body |-> [next |-> IF results = <<>> THEN NullStr ELSE <<Word("?page=2")>>,
               previous |-> NullStr, results |-> results]]

\* Paginated...List(next=None, previous=None, results=results)
Paginated(results) ==
    [status |-> HTTP_200_OK,
     body |-> [next |-> NullStr, previous |-> NullStr, results |-> results]]

get_vergaderingen_response ==
    LET rows == All(vergaderingen)
    IN Paginated([k \in 1..Len(rows) |-> vergaderingen_db_to_schema(rows[k], agendapunten)])

get_vergaderingen ==
    /\ UNCHANGED sessions
    /\ req' = Request("list", "vergaderingen", NullStr, TRUE, NoBody)
    /\ resp' = get_vergaderingen_response
    /\ UNCHANGED <<vergaderingen, agendapunten, informatieobjecten, links, uuidCtr>>

\* get_agendapunten: a truthy vergadering_pid selects the meeting on its pid
\* column and 404s when there is none
get_agendapunten_response(vergadering_pid) ==
    LET internal_ids == {v \in vergaderingen : v.pid = vergadering_pid}
    IN IF Truthy(vergadering_pid) /\ internal_ids = {}
       THEN NotFound
       ELSE LET rows == All(IF Truthy(vergadering_pid)
                              THEN {a \in agendapunten :
                                      a.vergadering_id = First(internal_ids).id}
                              ELSE agendapunten)
            IN Paginated([k \in 1..Len(rows) |->
                            agendapunten_db_to_schema(rows[k], informatieobjecten, links)])

get_agendapunten(vergadering_pid) ==
    /\ UNCHANGED sessions
    /\ req' = Request("list", "agendapunten", vergadering_pid, TRUE, NoBody)
    /\ resp' = get_agendapunten_response(vergadering_pid)
    /\ UNCHANGED <<vergaderingen, agendapunten, informatieobjecten, links, uuidCtr>>

get_informatieobjecten_response ==
    LET rows == All(informatieobjecten)
    IN Paginated([k \in 1..Len(rows) |->
                    informatieobjecten_db_to_schema(rows[k], agendapunten, links)])

get_informatieobjecten ==
    /\ UNCHANGED sessions
    /\ req' = Request("list", "informatieobjecten", NullStr, TRUE, NoBody)
    /\ resp' = get_informatieobjecten_response
    /\ UNCHANGED <<vergaderingen, agendapunten, informatieobjecten, links, uuidCtr>>

(* ---------------------------- validation ------------------------------- *)
\* the required fields of the request schemas: a payload that lacks one is
\* answered 422 before the handler runs
VergaderingBase_validate(p) == p.naam # NullStr

\* AgendapuntBase with vergadering declared Optional
AgendapuntBase_validate_naam_only(p) == p.agendapuntnaam # NullStr

AgendapuntBase_validate(p) == p.agendapuntnaam # NullStr /\ p.vergadering # NullStr
InformatieObjectBase_validate(p) == p.titel # NullStr

(* ---------------------------- requests --------------------------------- *)
Gemeente == [variant |-> "gemeente", code |-> <<Word("gm0363")>>,
             naam |-> <<Word("Gemeente Amsterdam")>>]
Provincie == [variant |-> "provincie", code |-> <<Word("pv27")>>,
              naam |-> <<Word("Provincie Groningen")>>]
Waterschap == [variant |-> "waterschap", code |-> <<Word("ws0654")>>,
               naam |-> <<Word("Waterschap Aa en Maas")>>]

\* identifiers a client can put in a path: the UUIDs handed out so far and
\* a string of its own
IdInputs == {<<Uuid(n)>> : n \in 1..uuidCtr} \cup {<<Word("x")>>}

\* the pid_uuid of an update payload: the identifier in the path, or the
\* identifier of another resource of the collection
PidUuidInputs(rows, id) == {id} \cup {r.pid_uuid : r \in rows}

\* the identifiers tried with a request that fails validation
InvalidIdInputs == IdInputs \cap {<<Word("x")>>, <<Uuid(1)>>}

\* reference ids: a bare identifier, a URL ending in it, a numeral, ""
RefInputs(collection, rows) ==
    LET ids == {r.pid_uuid : r \in rows} \cup {<<Word("x")>>}
    IN ids \cup {Uri(collection, u) : u \in ids}
           \cup {StrOf(n) : n \in 0..MaxNum} \cup {EmptyStr}

VergaderingBase ==
    [organisatie |-> Gemeente, naam |-> <<Word("Raadsvergadering")>>,
     hoofdvergadering |-> NullStr, georganiseerddoorgremium |-> <<>>,
     locatie |-> NullStr, pid_uuid |-> NullStr]

VergaderingZonderPidInputs == {VergaderingBase}

VergaderingInputs(id) ==
    IF WherePidUuid(vergaderingen, id) = {}
      THEN {[VergaderingBase EXCEPT !.pid_uuid = id]}
      ELSE {[VergaderingBase EXCEPT !.pid_uuid = u] : u \in PidUuidInputs(vergaderingen, id)}

AgendapuntBase ==
    [organisatie |-> Gemeente, agendapuntnaam |-> <<Word("Begrotingsbespreking")>>,
     vergadering |-> EmptyStr, hoofdagendapunt |-> NullStr,
     omschrijving |-> NullStr, pid_uuid |-> NullStr]

AgendapuntZonderPidInputs ==
    {[AgendapuntBase EXCEPT !.vergadering = r] : r \in RefInputs("vergaderingen", vergaderingen)}

AgendapuntInputs(id) ==
    IF WherePidUuid(agendapunten, id) = {}
      THEN {[AgendapuntBase EXCEPT !.pid_uuid = id]}
      ELSE {[AgendapuntBase EXCEPT !.pid_uuid = id, !.vergadering = r] :
               r \in RefInputs("vergaderingen", vergaderingen)}
             \cup {[AgendapuntBase EXCEPT !.pid_uuid = u, !.vergadering = <<Word("x")>>] :
                     u \in PidUuidInputs(agendapunten, id)}

InformatieObjectBase ==
    [organisatie |-> Gemeente, titel |-> <<Word("Testdocument")>>, auteur |-> NullStr,
     vergaderingen |-> <<>>, agendapunten |-> <<>>, pid_uuid |-> NullStr]

RefLists(collection, rows) ==
    {<<>>} \cup {<<r>> : r \in RefInputs(collection, rows)}
           \cup {<<r.pid_uuid, Uri(collection, q.pid_uuid)>> : r \in rows, q \in rows}
           \cup {<<r.pid_uuid, r.pid_uuid>> : r \in rows}

InformatieObjectZonderPidInputs ==
    {[InformatieObjectBase EXCEPT !.agendapunten = l] : l \in RefLists("agendapunten", agendapunten)}
      \cup {[InformatieObjectBase EXCEPT !.vergaderingen = l] :
              l \in {<<r>> : r \in RefInputs("vergaderingen", vergaderingen)}}

InformatieObjectInputs(id) ==
    IF WherePidUuid(informatieobjecten, id) = {}
      THEN {[InformatieObjectBase EXCEPT !.pid_uuid = id]}
      ELSE {[InformatieObjectBase EXCEPT !.pid_uuid = u] :
               u \in PidUuidInputs(informatieobjecten, id)}

\* payloads that lack a required field
VergaderingInvalidInputs == {[VergaderingBase EXCEPT !.naam = NullStr]}

AgendapuntInvalidInputs ==
    {[AgendapuntBase EXCEPT !.agendapuntnaam = NullStr],
     [AgendapuntBase EXCEPT !.vergadering = NullStr]}

InformatieObjectInvalidInputs == {[InformatieObjectBase EXCEPT !.titel = NullStr]}

\* the vergadering_pid query parameter: absent, empty, the pid of a meeting
\* created so far or of none, a bare identifier
PidInputs ==
    {NullStr, EmptyStr} \cup {Uri("vergaderingen", u) : u \in IdInputs} \cup InvalidIdInputs

(* ---------------------------- specification ---------------------------- *)
\* the requests that are handled at the same time, one session each
Sessions == 1..MaxSessions

\* get_session before the handler has run: nothing loaded, nothing answered
NoSession ==
    [pc |-> "idle", req |-> Request("none", "none", NullStr, TRUE, NoBody),
     obj |-> NoBody, resp |-> [status |-> 0, body |-> NoBody]]

Init ==
    /\ sessions = [s \in Sessions |-> NoSession]
    /\ vergaderingen = {}
    /\ agendapunten = {}
    /\ informatieobjecten = {}
    /\ links = {}
    /\ uuidCtr = 0
    /\ req = Request("none", "none", NullStr, TRUE, NoBody)
    /\ resp = [status |-> 0, body |-> NoBody]

Next ==
    \/ \E p \in VergaderingZonderPidInputs : post_vergadering(p, TRUE)
    \/ \E p \in VergaderingInvalidInputs : post_vergadering(p, VergaderingBase_validate(p))
    \/ get_vergaderingen
    \/ \E id \in IdInputs : get_vergadering(id)
    \/ \E id \in IdInputs : \E p \in VergaderingInputs(id) : put_vergadering(id, p, TRUE)
    \/ \E id \in InvalidIdInputs : put_vergadering(id, VergaderingBase, FALSE)
    \/ \E id \in IdInputs : del_vergadering(id)
    \/ \E p \in AgendapuntZonderPidInputs : post_agendapunt(p, TRUE)
    \/ \E p \in AgendapuntInvalidInputs : post_agendapunt(p, AgendapuntBase_validate(p))
    \/ \E vergadering_pid \in PidInputs : get_agendapunten(vergadering_pid)
    \/ \E id \in IdInputs : get_agendapunt(id)
    \/ \E id \in IdInputs : \E p \in AgendapuntInputs(id) : put_agendapunt(id, p, TRUE)
    \/ \E id \in InvalidIdInputs : put_agendapunt(id, AgendapuntBase, FALSE)
    \/ \E id \in IdInputs : del_agendapunt(id)
    \/ \E p \in InformatieObjectZonderPidInputs : post_informatieobject(p, TRUE)
    \/ \E p \in InformatieObjectInvalidInputs :
          post_informatieobject(p, InformatieObjectBase_validate(p))
    \/ get_informatieobjecten
    \/ \E id \in IdInputs : get_informatieobject(id)
    \/ \E id \in IdInputs : \E p \in InformatieObjectInputs(id) :
          put_informatieobject(id, p, TRUE)
    \/ \E id \in InvalidIdInputs : put_informatieobject(id, InformatieObjectBase, FALSE)
    \/ \E id \in IdInputs : del_informatieobject(id, TRUE)
    \/ \E id \in InvalidIdInputs : del_informatieobject(id, FALSE)

Spec == Init /\ [][Next]_vars

(* ------------- parent references and optional attributes --------------- *)
\* the id of a hoofdvergadering or hoofdagendapunt reference: none, an
\* identifier that is no numeral, a numeral
ParentRefInputs == {NullStr, <<Word("x")>>} \cup {StrOf(n) : n \in 1..MaxNum}

Gremia == {<<>>, <<<<Word("gr1")>>, <<Word("Gemeenteraad")>>>>}
Locaties == {NullStr, <<Word("Raadzaal")>>}

VergaderingMetOuderInputs ==
    {[VergaderingBase EXCEPT !.hoofdvergadering = h, !.georganiseerddoorgremium = g,
                             !.locatie = l] :
        h \in ParentRefInputs, g \in Gremia, l \in Locaties}

AgendapuntMetOuderInputs ==
    {[AgendapuntBase EXCEPT !.vergadering = v, !.hoofdagendapunt = h] :
        v \in {<<Word("x")>>} \cup {r.pid_uuid : r \in vergaderingen},
        h \in ParentRefInputs}

\* update payloads that leave the identifier as it is
VergaderingMetOuderUpdates(id) ==
    IF WherePidUuid(vergaderingen, id) = {}
      THEN {[VergaderingBase EXCEPT !.pid_uuid = id]}
      ELSE {[p EXCEPT !.pid_uuid = id] : p \in VergaderingMetOuderInputs}

AgendapuntMetOuderUpdates(id) ==
    IF WherePidUuid(agendapunten, id) = {}
      THEN {[AgendapuntBase EXCEPT !.pid_uuid = id]}
      ELSE {[AgendapuntBase EXCEPT !.pid_uuid = id, !.vergadering = v, !.hoofdagendapunt = h] :
               v \in {<<Word("x")>>} \cup {StrOf(n) : n \in 1..MaxNum},
               h \in ParentRefInputs}

NextOuders ==
    \/ \E p \in VergaderingMetOuderInputs : post_vergadering(p, TRUE)
    \/ \E id \in IdInputs : get_vergadering(id)
    \/ \E id \in IdInputs : \E p \in VergaderingMetOuderUpdates(id) : put_vergadering(id, p, TRUE)
    \/ \E id \in IdInputs : del_vergadering(id)
    \/ \E p \in AgendapuntMetOuderInputs : post_agendapunt(p, TRUE)
    \/ \E id \in IdInputs : get_agendapunt(id)
    \/ \E id \in IdInputs : \E p \in AgendapuntMetOuderUpdates(id) : put_agendapunt(id, p, TRUE)
    \/ \E id \in IdInputs : del_agendapunt(id)

SpecOuders == Init /\ [][NextOuders]_vars

(* ---------------------------- organisatie ------------------------------ *)
Organisaties == {Gemeente, Provincie, Waterschap}

VergaderingOrgInputs == {[VergaderingBase EXCEPT !.organisatie = o] : o \in Organisaties}
AgendapuntOrgInputs == {[AgendapuntBase EXCEPT !.organisatie = o] : o \in Organisaties}
InformatieObjectOrgInputs ==
    {[InformatieObjectBase EXCEPT !.organisatie = o] : o \in Organisaties}

\* update payloads that leave the identifier as it is
OrgUpdates(inputs, id) == {[p EXCEPT !.pid_uuid = id] : p \in inputs}

NextOrg ==
    \/ \E p \in VergaderingOrgInputs : post_vergadering(p, TRUE)
    \/ \E id \in IdInputs : get_vergadering(id)
    \/ \E id \in IdInputs : \E p \in OrgUpdates(VergaderingOrgInputs, id) :
          put_vergadering(id, p, TRUE)
    \/ \E id \in IdInputs : del_vergadering(id)
    \/ \E p \in AgendapuntOrgInputs : post_agendapunt(p, TRUE)
    \/ \E id \in IdInputs : get_agendapunt(id)
    \/ \E id \in IdInputs : \E p \in OrgUpdates(AgendapuntOrgInputs, id) :
          put_agendapunt(id, p, TRUE)
    \/ \E id \in IdInputs : del_agendapunt(id)
    \/ \E p \in InformatieObjectOrgInputs : post_informatieobject(p, TRUE)
    \/ \E id \in IdInputs : get_informatieobject(id)
    \/ \E id \in IdInputs : \E p \in OrgUpdates(InformatieObjectOrgInputs, id) :
          put_informatieobject(id, p, TRUE)
    \/ \E id \in IdInputs : del_informatieobject(id, TRUE)

SpecOrg == Init /\ [][NextOrg]_vars

(* ---------------------------- interleaved requests --------------------- *)
\* The handlers are plain functions, which the framework runs on worker
\* threads, each with a session of its own on the one engine: between two
\* statements of one handler another request can run.  A step is a SELECT
\* with the Python code that follows it, or a commit with its flush.

\* the handler of session s returns or raises: its request is answered
Answer(s, rs) ==
    /\ sessions' = [sessions EXCEPT ![s].pc = "done", ![s].resp = rs]
    /\ req' = sessions[s].req
    /\ resp' = rs

\* request rq enters its handler in session s, which finds no row
AnswerNotFound(s, rq) ==
    /\ sessions' = [sessions EXCEPT ![s] = [NoSession EXCEPT !.pc = "done", !.req = rq,
                                                            !.resp = NotFound]]
    /\ req' = rq
    /\ resp' = NotFound

\* request rq enters its handler in session s, which holds row obj and
\* goes on at pc
Proceed(s, pc, rq, obj) ==
    /\ sessions' = [sessions EXCEPT ![s] = [NoSession EXCEPT !.pc = pc, !.req = rq,
                                                            !.obj = obj]]
    /\ UNCHANGED <<req, resp>>

\* the UPDATE that a flush emits for a loaded row: it sets the columns
\* whose assigned value differs from the value that was loaded
Flush(current, loaded, assigned) ==
    [c \in DOMAIN current |-> IF assigned[c] # loaded[c] THEN assigned[c] ELSE current[c]]

\* put_vergadering up to the assignments: the SELECT by pid_uuid
put_vergadering_select(s, id, p) ==
    /\ sessions[s].pc = "idle"
    /\ LET rq == Request("put", "vergaderingen", id, TRUE, p)
           found == WherePidUuid(vergaderingen, id)
       IN IF found = {}
          THEN AnswerNotFound(s, rq)
          ELSE Proceed(s, "put_commit", rq, First(found))
    /\ UNCHANGED <<store, uuidCtr>>

\* put_vergadering, session.add and session.commit: the UPDATE goes by the
\* primary key of the loaded row; a row that is gone by then makes the
\* flush raise
put_vergadering_commit(s) ==
    /\ sessions[s].pc = "put_commit"
    /\ LET loaded == sessions[s].obj
           assigned == put_vergadering_fields(loaded, sessions[s].req.body)
           current == {r \in vergaderingen : r.id = loaded.id}
       IN IF current = {}
          THEN /\ Answer(s, InternalServerError)
               /\ UNCHANGED vergaderingen
          ELSE /\ vergaderingen' =
                     (vergaderingen \ current) \cup {Flush(First(current), loaded, assigned)}
               /\ sessions' = [sessions EXCEPT ![s].pc = "put_refresh"]
               /\ UNCHANGED <<req, resp>>
    /\ UNCHANGED <<agendapunten, informatieobjecten, links, uuidCtr>>

\* put_vergadering, session.refresh and db_to_schema
put_vergadering_refresh(s) ==
    /\ sessions[s].pc = "put_refresh"
    /\ LET current == {r \in vergaderingen : r.id = sessions[s].obj.id}
       IN IF current = {}
          THEN Answer(s, InternalServerError)
          ELSE Answer(s, [status |-> HTTP_201_CREATED,
                          body |-> vergaderingen_db_to_schema(First(current), agendapunten)])
    /\ UNCHANGED <<store, uuidCtr>>

\* del_vergadering up to session.delete: the SELECT by pid_uuid
del_vergadering_select(s, id) ==
    /\ sessions[s].pc = "idle"
    /\ LET rq == Request("delete", "vergaderingen", id, TRUE, NoBody)
           found == WherePidUuid(vergaderingen, id)
       IN IF found = {}
          THEN AnswerNotFound(s, rq)
          ELSE Proceed(s, "del_commit", rq, First(found))
    /\ UNCHANGED <<store, uuidCtr>>

\* del_vergadering, session.delete and session.commit: the DELETE goes by
\* the primary key of the loaded row; a DELETE that matches no row is no
\* error
del_vergadering_commit(s) ==
    /\ sessions[s].pc = "del_commit"
    /\ LET vergadering == sessions[s].obj
           current == {r \in vergaderingen : r.id = vergadering.id}
       IN /\ vergaderingen' =
               Nullify(vergaderingen \ current, "hoofdvergadering_id", vergadering.id)
          /\ agendapunten' = Nullify(agendapunten, "vergadering_id", vergadering.id)
    /\ Answer(s, Deleted)
    /\ UNCHANGED <<informatieobjecten, links, uuidCtr>>

\* post_informatieobject up to its first commit and refresh
post_informatieobject_insert(s, p) ==
    /\ sessions[s].pc = "idle"
    /\ uuidCtr < MaxUuid
    /\ Cardinality(informatieobjecten) < MaxI
    /\ LET db_obj == post_informatieobject_db_obj(p)
       IN /\ informatieobjecten' = informatieobjecten \cup {db_obj}
          /\ Proceed(s, "post_link", Request("post", "informatieobjecten", NullStr, TRUE, p),
                     db_obj)
    /\ uuidCtr' = uuidCtr + 1
    /\ UNCHANGED <<vergaderingen, agendapunten, links>>

\* post_informatieobject from "if informatieobject.agendapunten:" on: the
\* loop, the second commit and db_to_schema
post_informatieobject_link(s) ==
    /\ sessions[s].pc = "post_link"
    /\ LET db_obj == sessions[s].obj
           refs == sessions[s].req.body.agendapunten
       IN IF refs # <<>> /\ FlushFails(AppendedAgendapunten(refs))
          THEN /\ links' = links
               /\ Answer(s, InternalServerError)
          ELSE /\ links' = links \cup LinkAgendapunten(refs, db_obj.id)
               /\ Answer(s, [status |-> HTTP_201_CREATED,
                             body |-> informatieobjecten_db_to_schema(
                                         db_obj, agendapunten, links')])
    /\ UNCHANGED <<vergaderingen, agendapunten, informatieobjecten, uuidCtr>>

\* update payloads that differ in one attribute or in two
VergaderingNamen == {VergaderingBase.naam, <<Word("Commissievergadering")>>}

VergaderingAttribuutUpdates(id) ==
    {[VergaderingBase EXCEPT !.pid_uuid = id, !.naam = n, !.locatie = l] :
        n \in VergaderingNamen, l \in Locaties}

InformatieObjectMetAgendapunten ==
    {[InformatieObjectBase EXCEPT !.agendapunten = l] : l \in RefLists("agendapunten", agendapunten)}

NextInterleaved ==
    \/ post_vergadering(VergaderingBase, TRUE)
    \/ post_agendapunt(AgendapuntBase, TRUE)
    \/ \E id \in IdInputs : get_informatieobject(id)
    \/ get_informatieobjecten
    \/ \E s \in Sessions : \E id \in IdInputs : \E p \in VergaderingAttribuutUpdates(id) :
          put_vergadering_select(s, id, p)
    \/ \E s \in Sessions : put_vergadering_commit(s)
    \/ \E s \in Sessions : put_vergadering_refresh(s)
    \/ \E s \in Sessions : \E id \in IdInputs : del_vergadering_select(s, id)
    \/ \E s \in Sessions : del_vergadering_commit(s)
    \/ \E s \in Sessions : \E p \in InformatieObjectMetAgendapunten :
          post_informatieobject_insert(s, p)
    \/ \E s \in Sessions : post_informatieobject_link(s)

SpecInterleaved == Init /\ [][NextInterleaved]_vars

(* ---------------------------- properties ------------------------------- *)
Collections == {"vergaderingen", "agendapunten", "informatieobjecten"}

Table(typ) ==
    CASE typ = "vergaderingen" -> vergaderingen
      [] typ = "agendapunten" -> agendapunten
      [] OTHER -> informatieobjecten

\* the response a GET of typ/id gets when it is the next request
GetResponse(typ, id) ==
    CASE typ = "vergaderingen" -> get_vergadering_response(id)
      [] typ = "agendapunten" -> get_agendapunt_response(id)
      [] OTHER -> get_informatieobject_response(id)

Created == req.op = "post" /\ resp.status = HTTP_201_CREATED
Read(typ) == req.op = "get" /\ req.typ = typ /\ resp.status = HTTP_200_OK

\* the row a successful read has just rendered
ReadRow == First(WherePidUuid(Table(req.typ), req.id))

\* the number of places of the list l that hold x
Count(l, x) == Cardinality({k \in 1..Len(l) : l[k] = x})

\* the list l holds f(r) once for every r of rows, and nothing else
RendersExactly(l, rows, f(_)) ==
    /\ Len(l) = Cardinality(rows)
    /\ \A r \in rows : Count(l, f(r)) = Cardinality({q \in rows : f(q) = f(r)})

\* a collection of a response body; a body without the field has none
Collection(body, field) == IF field \in DOMAIN body THEN body[field] ELSE <<>>

\* C1: after every successful create, of a meeting, an agenda item or an
\* information object, a GET by the returned pid_uuid issued as the next
\* request returns 200 and the representation the create returned.
C1_RoundTrip ==
    Created =>
        GetResponse(req.typ, resp.body.pid_uuid) =
            [status |-> HTTP_200_OK, body |-> resp.body]

\* an information object has been created with a link to an agenda item
C1_Witness ==
    /\ Created
    /\ req.typ = "informatieobjecten"
    /\ resp.body.agendapunten # <<>>

\* C2: in every reachable state no two stored rows of one table have the
\* same pid_uuid.
C2_UniquePidUuid ==
    \A typ \in Collections :
        \A r, q \in Table(typ) : r.id # q.id => r.pid_uuid # q.pid_uuid

\* the identifiers a read of row r shows
Identifiers(typ, r) == <<Uri(typ, r.pid_uuid), r.pid_uuid>>

\* C3: no step changes the pid or pid_uuid that a row is read with: a row
\* that is stored before and after a request shows the same identifiers.
C3_IdentifiersImmutable ==
    [][\A typ \in Collections :
          \A r \in Table(typ) : \A q \in Table(typ)' :
              r.id = q.id => Identifiers(typ, q) = Identifiers(typ, r)]_vars

\* C4: after a delete that answered 200, a GET by the same identifier
\* returns 404.
C4_DeletedIsGone ==
    (req.op = "delete" /\ resp.status = HTTP_200_OK) =>
        GetResponse(req.typ, req.id).status = HTTP_404_NOT_FOUND

\* C5: a valid read, update or delete whose identifier is the pid_uuid of no
\* row of its table answers 404 and leaves the three tables and the join
\* table as they were.
C5_NotFound ==
    [][(/\ req'.op \in {"get", "put", "delete"}
        /\ req'.valid
        /\ WherePidUuid(Table(req'.typ), req'.id) = {})
       => (resp'.status = HTTP_404_NOT_FOUND /\ store' = store)]_vars

\* an update of an identifier that no row has was answered, rows being stored
C5_Witness ==
    /\ req.op = "put"
    /\ resp.status = HTTP_404_NOT_FOUND
    /\ Table(req.typ) # {}
    /\ links # {}

\* the information objects linked to an agenda item of meeting v
MeetingRollup(v) ==
    {i \in informatieobjecten :
        \E a \in agendapunten : a.vergadering_id = v.id /\ <<a.id, i.id>> \in links}

InformatieobjectUri(i) == Uri("informatieobjecten", i.pid_uuid)
AgendapuntUri(a) == Uri("agendapunten", a.pid_uuid)
VergaderingUri(v) == Uri("vergaderingen", v.pid_uuid)
AgendapuntRef(a) == [id |-> AgendapuntUri(a), url |-> AgendapuntUri(a)]

\* C6: the informatieobjecten collection of a meeting read by GET holds, once
\* each, the URI of every information object linked to one of the meeting's
\* agenda items.
C6_MeetingRollup ==
    Read("vergaderingen") =>
        RendersExactly(Collection(resp.body, "informatieobjecten"),
                       MeetingRollup(ReadRow), InformatieobjectUri)

\* the meetings that own an agenda item linked to information object i
ObjectRollup(i) ==
    {v \in vergaderingen :
        \E a \in agendapunten : a.vergadering_id = v.id /\ <<a.id, i.id>> \in links}

\* C7: the vergaderingen collection of an information object read by GET
\* holds, once each, a reference to every meeting that owns an agenda item
\* linked to the object.
C7_ObjectRollup ==
    Read("informatieobjecten") =>
        LET l == Collection(resp.body, "vergaderingen")
        IN RendersExactly([k \in 1..Len(l) |-> l[k].id],
                          ObjectRollup(ReadRow), VergaderingUri)

\* C8: a create of an information object whose payload names a meeting that
\* has an agenda item, and names no agenda item, answers 201 with exactly that meeting in vergaderingen and
\* exactly the meeting's agenda items in agendapunten.
C8_PostWithVergadering ==
    (/\ req.op = "post" /\ req.typ = "informatieobjecten" /\ req.valid
     /\ req.body.agendapunten = <<>>
     /\ Len(req.body.vergaderingen) = 1
     /\ \E v \in WherePidUuid(vergaderingen, LastSegment(req.body.vergaderingen[1])) :
           \E a \in agendapunten : a.vergadering_id = v.id)
    => LET m == First(WherePidUuid(vergaderingen, LastSegment(req.body.vergaderingen[1])))
           l == Collection(resp.body, "vergaderingen")
       IN /\ resp.status = HTTP_201_CREATED
          /\ RendersExactly([k \in 1..Len(l) |-> l[k].id], {m}, VergaderingUri)
          /\ RendersExactly(Collection(resp.body, "agendapunten"),
                            {a \in agendapunten : a.vergadering_id = m.id}, AgendapuntRef)

\* C9: the agendapunten collection of a meeting read by GET holds one URI
\* for every stored agenda item whose vergadering_id is the meeting's id, and
\* nothing else.
C9_MeetingAgendapunten ==
    Read("vergaderingen") =>
        RendersExactly(resp.body.agendapunten,
                       {a \in agendapunten : a.vergadering_id = ReadRow.id}, AgendapuntUri)

\* a meeting was read that has an agenda item, while another agenda item is
\* stored that is not the meeting's
C9_Witness ==
    /\ Read("vergaderingen")
    /\ resp.body.agendapunten # <<>>
    /\ \E a \in agendapunten : a.vergadering_id # ReadRow.id

\* C10: the agendapunten collection of an information object read by GET
\* holds one reference, built from the agenda item's pid_uuid, for every
\* agenda item joined to the object, and nothing else.
C10_ObjectAgendapunten ==
    Read("informatieobjecten") =>
        RendersExactly(resp.body.agendapunten,
                       {a \in agendapunten : <<a.id, ReadRow.id>> \in links}, AgendapuntRef)

\* an information object was read that is joined to one agenda item and not
\* to another
C10_Witness ==
    /\ Read("informatieobjecten")
    /\ resp.body.agendapunten # <<>>
    /\ \E a \in agendapunten : <<a.id, ReadRow.id>> \notin links

\* the body of a list request without filter in the current state
ListResponse(typ) ==
    CASE typ = "vergaderingen" -> get_vergaderingen_response
      [] typ = "agendapunten" -> get_agendapunten_response(NullStr)
      [] OTHER -> get_informatieobjecten_response

\* the representation a read of row r of collection typ gives
Render(typ, r) ==
    CASE typ = "vergaderingen" -> vergaderingen_db_to_schema(r, agendapunten)
      [] typ = "agendapunten" -> agendapunten_db_to_schema(r, informatieobjecten, links)
      [] OTHER -> informatieobjecten_db_to_schema(r, agendapunten, links)

\* a payload of a create that lacks a field its schema requires
LacksRequired(typ, p) ==
    CASE typ = "vergaderingen" -> p.naam = NullStr
      [] typ = "agendapunten" -> p.agendapuntnaam = NullStr \/ p.vergadering = NullStr
      [] OTHER -> p.titel = NullStr

\* C11: a create whose payload lacks a required field is answered 422 and
\* leaves the stored rows of every type, and so every list, as they were.
C11_InvalidCreate ==
    [][(req'.op = "post" /\ LacksRequired(req'.typ, req'.body))
       => /\ resp'.status = HTTP_422_UNPROCESSABLE
          /\ store' = store
          /\ \A typ \in Collections : ListResponse(typ)' = ListResponse(typ)]_vars

\* a create without a required field was answered while rows are stored
C11_Witness ==
    /\ req.op = "post"
    /\ LacksRequired(req.typ, req.body)
    /\ resp.status = HTTP_422_UNPROCESSABLE
    /\ Table(req.typ) # {}

\* C12: a list of agenda items filtered on a meeting pid answers 404 when no
\* stored meeting has that pid, and otherwise 200 with exactly the agenda
\* items whose vergadering_id is that meeting's id.
C12_FilteredList ==
    (req.op = "list" /\ req.typ = "agendapunten" /\ Truthy(req.id)) =>
        LET ms == {v \in vergaderingen : VergaderingUri(v) = req.id}
        IN IF ms = {}
           THEN resp.status = HTTP_404_NOT_FOUND
           ELSE /\ resp.status = HTTP_200_OK
                /\ \E m \in ms :
                     LET render(a) == Render("agendapunten", a)
                     IN RendersExactly(resp.body.results,
                                       {a \in agendapunten : a.vergadering_id = m.id}, render)

\* the row a successful create has just stored
NewRow == First(WherePidUuid(Table(req.typ), resp.body.pid_uuid))

\* the two forms of a reference to the resource u of a collection
BothForms(collection, u) == {u, Uri(collection, u)}

Unresolvable(collection, rows, ref) ==
    \A r \in rows : ref \notin BothForms(collection, r.pid_uuid)

\* C14: a create whose reference names no stored target is answered 201;
\* the agenda item is stored with no vergadering_id, and no join row is
\* written for the information object.
C14_UnresolvableDropped ==
    [][(req'.op = "post" /\ req'.valid) =>
        /\ (/\ req'.typ = "agendapunten"
            /\ Truthy(req'.body.vergadering)
            /\ Unresolvable("vergaderingen", vergaderingen, req'.body.vergadering))
           => /\ resp'.status = HTTP_201_CREATED
              /\ \A a \in agendapunten' \ agendapunten : a.vergadering_id = NullId
        /\ (/\ req'.typ = "informatieobjecten"
            /\ req'.body.agendapunten # <<>>
            /\ \A k \in 1..Len(req'.body.agendapunten) :
                  Unresolvable("agendapunten", agendapunten, req'.body.agendapunten[k]))
           => /\ resp'.status = HTTP_201_CREATED
              /\ links' = links]_vars

\* the identifiers for which a GET of the collection answers 200
Readable(typ) == {id \in IdInputs : GetResponse(typ, id).status = HTTP_200_OK}

\* C16: a row comes to be stored only by a create of its collection and
\* ceases to be stored only by a delete of its collection; an update changes
\* neither the number of stored rows nor the set of identifiers that a GET
\* answers with 200.
C16_Existence ==
    [][\A typ \in Collections :
          /\ Ids(Table(typ)') \ Ids(Table(typ)) # {} => (req'.op = "post" /\ req'.typ = typ)
          /\ Ids(Table(typ)) \ Ids(Table(typ)') # {} => (req'.op = "delete" /\ req'.typ = typ)
          /\ req'.op = "put" =>
                /\ Cardinality(Table(typ)') = Cardinality(Table(typ))
                /\ Readable(typ)' = Readable(typ)]_vars

\* the parent reference of a payload or of a rendered resource
ParentField(typ) == IF typ = "vergaderingen" THEN "hoofdvergadering" ELSE "hoofdagendapunt"

\* the parent column of a stored row
ParentColumn(typ) == IF typ = "vergaderingen" THEN "hoofdvergadering_id" ELSE "hoofdagendapunt_id"

\* the row of collection typ that is stored under id after the step
TableAfter(typ) ==
    CASE typ = "vergaderingen" -> vergaderingen'
      [] typ = "agendapunten" -> agendapunten'
      [] OTHER -> informatieobjecten'

RowAfter(typ, id) == CHOOSE r \in TableAfter(typ) : r.id = id

\* the client-settable attributes of stored row r are those of payload p; a
\* parent reference that is no numeral counts as absent
Replaces(typ, r, p) ==
    /\ OrgOfRow(r) = p.organisatie
    /\ r[ParentColumn(typ)] =
          (IF IsNumeric(p[ParentField(typ)]) THEN IntOf(p[ParentField(typ)]) ELSE NullId)
    /\ IF typ = "vergaderingen"
         THEN /\ r.naam = p.naam
              /\ r.locatie = p.locatie
              /\ <<r.gremium_identificatie, r.gremium_naam>> =
                    (IF p.georganiseerddoorgremium = <<>> THEN <<NullStr, NullStr>>
                     ELSE p.georganiseerddoorgremium)
         ELSE /\ r.agendapuntnaam = p.agendapuntnaam
              /\ r.omschrijving = p.omschrijving

\* C15: an update of an existing meeting or agenda item answers 201 and
\* leaves the stored row with the attributes of the payload, an attribute
\* the payload omits being null; nothing of the former values survives.
C15_FullReplace ==
    [][(/\ req'.op = "put" /\ req'.valid
        /\ req'.typ \in {"vergaderingen", "agendapunten"}
        /\ WherePidUuid(Table(req'.typ), req'.id) # {})
       => /\ resp'.status = HTTP_201_CREATED
          /\ Replaces(req'.typ,
                      RowAfter(req'.typ, First(WherePidUuid(Table(req'.typ), req'.id)).id),
                      req'.body)]_vars

\* a response that renders one resource of collection typ
Rendered(typ) ==
    /\ req.typ = typ
    /\ \/ req.op = "get" /\ resp.status = HTTP_200_OK
       \/ req.op \in {"post", "put"} /\ resp.status = HTTP_201_CREATED

\* the reference ref is rendered from the pid_uuid of the row of rows that
\* the foreign key fk points to, if there is one
FromPidUuid(collection, rows, fk, ref) ==
    \A t \in rows : t.id = fk => ref.id \in BothForms(collection, t.pid_uuid)

\* the stored row of the resource a response renders
RenderedRow == First(WherePidUuid(Table(req.typ), resp.body.pid_uuid))

\* C17: the parent reference of a rendered meeting, and the meeting and the
\* parent reference of a rendered agenda item, are built from the pid_uuid
\* of the row they point to, not from the stored foreign key.
C17_NoInternalIds ==
    /\ Rendered("vergaderingen") =>
          FromPidUuid("vergaderingen", vergaderingen,
                      RenderedRow.hoofdvergadering_id, resp.body.hoofdvergadering)
    /\ Rendered("agendapunten") =>
          /\ FromPidUuid("vergaderingen", vergaderingen,
                         RenderedRow.vergadering_id, resp.body.vergadering)
          /\ FromPidUuid("agendapunten", agendapunten,
                         RenderedRow.hoofdagendapunt_id, resp.body.hoofdagendapunt)

\* C20: a create or an update of a meeting or agenda item whose parent
\* reference has an id that is no numeral succeeds, and the resource then
\* has no parent reference, whatever parent it had before.
C20_NonNumericParent ==
    (/\ req.op \in {"post", "put"} /\ req.valid
     /\ req.typ \in {"vergaderingen", "agendapunten"}
     /\ resp.status # HTTP_404_NOT_FOUND
     /\ req.body[ParentField(req.typ)] # NullStr
     /\ ~IsNumeric(req.body[ParentField(req.typ)]))
    => /\ resp.status = HTTP_201_CREATED
       /\ resp.body[ParentField(req.typ)] = NoRef
       /\ RenderedRow[ParentColumn(req.typ)] = NullId

\* when row r was created: its pid column holds the UUID generated for it,
\* and the model numbers the UUIDs in the order of their generation
CreationRank(r) == r.pid[Len(r.pid)].n

\* the rows of a table, earliest created first
InCreationOrder(rows) ==
    [k \in 1..Cardinality(rows) |->
        CHOOSE r \in rows :
            Cardinality({q \in rows : CreationRank(q) < CreationRank(r)}) = k - 1]

\* C18: a list without filter holds one entry for every stored row of the
\* collection, the representation a read of the row gives, in the order in
\* which the rows were created.
C18_List ==
    (req.op = "list" /\ req.id = NullStr) =>
        /\ resp.status = HTTP_200_OK
        /\ resp.body.results =
              [k \in 1..Cardinality(Table(req.typ)) |->
                  Render(req.typ, InCreationOrder(Table(req.typ))[k])]

\* two rows were listed, the second created as the last of three resources
C18_Witness ==
    /\ req.op = "list" /\ req.id = NullStr
    /\ Len(resp.body.results) = 2
    /\ uuidCtr = MaxUuid
    /\ \E r \in Table(req.typ) : r.id = 2 /\ CreationRank(r) = MaxUuid

\* the organisatie a read of the row with identifier id shows
ReadOrganisatie(typ, id) == GetResponse(typ, id).body.organisatie

C21_UpdateResolves ==
    [][(req'.op = "put" /\ req'.typ = "agendapunten"
          /\ resp'.status = HTTP_201_CREATED) =>
        \A m \in vergaderingen :
           req'.body.vergadering \in BothForms("vergaderingen", m.pid_uuid) =>
             LET a == RowAfter("agendapunten",
                               First(WherePidUuid(agendapunten, req'.id)).id)
             IN \E t \in WherePidUuid(vergaderingen, m.pid_uuid) :
                   a.vergadering_id = t.id]_vars

\* C22: a create of an information object whose payload names one stored
\* agenda item twice, as the same string or once as a bare UUID and once as
\* a URL, is answered 201, renders that agenda item once in agendapunten,
\* and stores the join row to it.
C22_DuplicateFree ==
    [][(req'.op = "post" /\ req'.typ = "informatieobjecten" /\ req'.valid) =>
        \A a \in agendapunten :
          (\E j, k \in 1..Len(req'.body.agendapunten) :
              /\ j # k
              /\ req'.body.agendapunten[j] \in BothForms("agendapunten", a.pid_uuid)
              /\ req'.body.agendapunten[k] \in BothForms("agendapunten", a.pid_uuid))
          => /\ resp'.status = HTTP_201_CREATED
             /\ Count(Collection(resp'.body, "agendapunten"), AgendapuntRef(a)) = 1
             /\ \A i \in informatieobjecten' \ informatieobjecten :
                   \E t \in WherePidUuid(agendapunten, a.pid_uuid) :
                      <<t.id, i.id>> \in links']_vars

\* C23 as stated: a delete of a meeting answered 200 removes one meeting
\* row and leaves the agenda items, with their vergadering_id, the
\* information objects and the join rows as they were; a delete of an
\* agenda item answered 200 leaves the information objects as they were.
C23_NoCascade ==
    [][(req'.op = "delete" /\ resp'.status = HTTP_200_OK) =>
        /\ req'.typ = "vergaderingen" =>
              /\ Cardinality(vergaderingen') = Cardinality(vergaderingen) - 1
              /\ agendapunten' = agendapunten
              /\ informatieobjecten' = informatieobjecten
              /\ links' = links
        /\ req'.typ = "agendapunten" =>
              informatieobjecten' = informatieobjecten]_vars

\* C23, amended: a delete of a meeting answered 200 removes exactly one
\* meeting row, one with the requested pid_uuid, and no agenda item,
\* information object or join row; an agenda item of that meeting stays
\* stored with vergadering_id null and its other columns unchanged, every
\* other agenda item is unchanged.  A delete of an agenda item answered 200
\* leaves the information objects as they were.
C23_DeleteNullifies ==
    [][(req'.op = "delete" /\ resp'.status = HTTP_200_OK) =>
        /\ req'.typ = "vergaderingen" =>
              /\ \E v \in WherePidUuid(vergaderingen, req'.id) :
                    /\ Ids(vergaderingen') = Ids(vergaderingen) \ {v.id}
                    /\ Ids(agendapunten') = Ids(agendapunten)
                    /\ \A a \in agendapunten :
                          RowAfter("agendapunten", a.id) =
                             IF a.vergadering_id = v.id
                               THEN [a EXCEPT !.vergadering_id = NullId]
                               ELSE a
              /\ informatieobjecten' = informatieobjecten
              /\ links' = links
        /\ req'.typ = "agendapunten" =>
              informatieobjecten' = informatieobjecten]_vars

\* a meeting was deleted while an agenda item that is joined to an
\* information object is stored with no meeting
C23_Witness ==
    /\ req.op = "delete" /\ req.typ = "vergaderingen"
    /\ resp.status = HTTP_200_OK
    /\ \E a \in agendapunten :
          /\ a.vergadering_id = NullId
          /\ \E i \in informatieobjecten : <<a.id, i.id>> \in links

\* C26: every answered request has one of the documented outcomes: 201 for
\* a create or an update, 200 for a read, a list or a delete, or 404 or 422.
C26_Outcomes ==
    req.op # "none" =>
        resp.status \in {HTTP_404_NOT_FOUND, HTTP_422_UNPROCESSABLE}
                          \cup (IF req.op \in {"post", "put"}
                                  THEN {HTTP_201_CREATED}
                                  ELSE {HTTP_200_OK})

\* C27: in every reachable state the list of each of the three collections,
\* and the list of agenda items under every filter that is answered with a
\* list, has next and previous null; so has every list that was returned.
C27_NoPaging ==
    /\ \A typ \in Collections :
          /\ ListResponse(typ).body.next = NullStr
          /\ ListResponse(typ).body.previous = NullStr
    /\ \A vergadering_pid \in PidInputs :
          LET response == get_agendapunten_response(vergadering_pid)
          IN response.status = HTTP_200_OK =>
                /\ response.body.next = NullStr
                /\ response.body.previous = NullStr
    /\ (req.op = "list" /\ resp.status = HTTP_200_OK) =>
          /\ resp.body.next = NullStr
          /\ resp.body.previous = NullStr

\* a collection was filled to its bound, and its list returned all its
\* rows on one page
C27_Witness ==
    /\ req.op = "list"
    /\ resp.status = HTTP_200_OK
    /\ Cardinality(Table(req.typ)) = MaxV
    /\ Len(resp.body.results) = Cardinality(Table(req.typ))
    /\ resp.body.next = NullStr

\* C28: in every reachable state the pid column of every stored row is the
\* URL built from its pid_uuid column, the pid a read renders; and the
\* meeting that the agenda-item filter selects for the rendered pid of a
\* stored meeting is that meeting.
C28_StoredPid ==
    /\ \A typ \in Collections : \A r \in Table(typ) : r.pid = Uri(typ, r.pid_uuid)
    /\ \A v \in vergaderingen :
          LET rendered == get_vergadering_response(v.pid_uuid).body.pid
          IN v \in {w \in vergaderingen : w.pid = rendered}

\* C29: after a delete of an agenda item answered 200, no stored meeting
\* and no stored information object renders the deleted identifier in its
\* agendapunten collection; after a delete of an information object
\* answered 200, no stored meeting renders the deleted identifier in its
\* informatieobjecten collection.
C29_NoDeletedReference ==
    (req.op = "delete" /\ resp.status = HTTP_200_OK) =>
        /\ req.typ = "agendapunten" =>
              /\ \A v \in vergaderingen :
                    Count(Collection(Render("vergaderingen", v), "agendapunten"),
                          Uri("agendapunten", req.id)) = 0
              /\ \A i \in informatieobjecten :
                    LET l == Collection(Render("informatieobjecten", i), "agendapunten")
                    IN \A k \in 1..Len(l) : l[k].id # Uri("agendapunten", req.id)
        /\ req.typ = "informatieobjecten" =>
              \A v \in vergaderingen :
                 Count(Collection(Render("vergaderingen", v), "informatieobjecten"),
                       Uri("informatieobjecten", req.id)) = 0

\* the request answered last was a read or a list of information objects
\* that returned row obj
Observed(obj) ==
    /\ req.typ = "informatieobjecten"
    /\ resp.status = HTTP_200_OK
    /\ \/ req.op = "get" /\ resp.body.pid_uuid = obj.pid_uuid
       \/ /\ req.op = "list"
          /\ \E k \in 1..Len(resp.body.results) :
                resp.body.results[k].pid_uuid = obj.pid_uuid

\* C24: while a create of an information object that names a stored agenda
\* item has not written its join rows, no read and no list returns the
\* information object; and when such a create ends without 201, the
\* information object is not stored.
C24_CreateIsOneStep ==
    \A s \in Sessions :
       LET t == sessions[s]
       IN (/\ t.req.op = "post"
           /\ t.req.typ = "informatieobjecten"
           /\ AppendedAgendapunten(t.req.body.agendapunten) # <<>>)
          => /\ t.pc = "post_link" => ~Observed(t.obj)
             /\ (t.pc = "done" /\ t.resp.status # HTTP_201_CREATED) =>
                   t.obj.id \notin Ids(informatieobjecten)

\* C25: when two updates of one stored meeting have both been answered,
\* both were answered 201 and the stored row has the attributes of the
\* payload of one of them.
C25_LastWriteWins ==
    \A s, t \in Sessions :
       (/\ s # t
        /\ sessions[s].pc = "done" /\ sessions[t].pc = "done"
        /\ sessions[s].req.op = "put" /\ sessions[t].req.op = "put"
        /\ sessions[s].req.id = sessions[t].req.id
        /\ sessions[s].resp.status # HTTP_404_NOT_FOUND
        /\ sessions[t].resp.status # HTTP_404_NOT_FOUND)
       => /\ sessions[s].resp.status = HTTP_201_CREATED
          /\ sessions[t].resp.status = HTTP_201_CREATED
          /\ \A r \in vergaderingen :
                r.id = sessions[s].obj.id =>
                   \/ Replaces("vergaderingen", r, sessions[s].req.body)
                   \/ Replaces("vergaderingen", r, sessions[t].req.body)

\* C30: when a delete and an update of one meeting have both been answered,
\* the update was answered 201 or 404, and if the delete was answered 200
\* no stored meeting has the identifier.
C30_NoResurrection ==
    \A d, u \in Sessions :
       (/\ sessions[d].pc = "done" /\ sessions[u].pc = "done"
        /\ sessions[d].req.op = "delete" /\ sessions[u].req.op = "put"
        /\ sessions[d].req.id = sessions[u].req.id)
       => /\ sessions[u].resp.status \in {HTTP_201_CREATED, HTTP_404_NOT_FOUND}
          /\ sessions[d].resp.status = HTTP_200_OK =>
                WherePidUuid(vergaderingen, sessions[d].req.id) = {}

====
